---- MODULE Spec2Model ----
(***************************************************************************)
(* A model of krishicks/testpipe, src/testpipe.go: TestPipe.Run and the    *)
(* functions it calls (flattenedPlan, flattenTask, loadTask,               *)
(* testParityOfParams, testPresenceOfRequiredResources).                   *)
(*                                                                         *)
(* Representation.  A Go string is a sequence of one-character strings,    *)
(* so that strings.Split, strings.Replace and filepath.Join are modelled   *)
(* by what they do to the characters.  A Go map is a function whose        *)
(* DOMAIN is the key set.  A Go pointer (or error) is a sequence of length *)
(* 0 (nil) or 1 (the value pointed to).                                    *)
(***************************************************************************)
EXTENDS Integers, Sequences, FiniteSets, TLC

\* ------------------------------------------------------------------------
\* Strings

EmptyStr == <<>>

Sep == "/"

\* strings.Split(s, "/")[0]: the characters before the first separator.
SplitFirst(s) ==
    IF \E i \in 1..Len(s) : s[i] = Sep
    THEN LET first == CHOOSE i \in 1..Len(s) :
                         /\ s[i] = Sep
                         /\ \A k \in 1..(i - 1) : s[k] # Sep
         IN SubSeq(s, 1, first - 1)
    ELSE s

\* strings.Replace(s, old, "", -1): every non-overlapping occurrence of old,
\* found left to right, is removed; an empty old leaves s as it is.
RECURSIVE RemoveAll(_, _)
RemoveAll(s, old) ==
    IF old = EmptyStr \/ Len(s) < Len(old) THEN s
    ELSE IF SubSeq(s, 1, Len(old)) = old
         THEN RemoveAll(SubSeq(s, Len(old) + 1, Len(s)), old)
         ELSE <<Head(s)>> \o RemoveAll(Tail(s), old)

\* filepath.Clean on the alphabet of the model (no "." characters): runs of
\* separators collapse to one and a trailing separator is dropped, except
\* for the root "/".
RECURSIVE Collapse(_)
Collapse(p) ==
    IF Len(p) < 2 THEN p
    ELSE IF p[1] = Sep /\ p[2] = Sep THEN Collapse(Tail(p))
         ELSE <<Head(p)>> \o Collapse(Tail(p))

Clean(p) ==
    LET c == Collapse(p)
    IN IF Len(c) > 1 /\ c[Len(c)] = Sep THEN SubSeq(c, 1, Len(c) - 1) ELSE c

\* filepath.Join(dir, rest): the non-empty elements joined by a separator,
\* then cleaned; the empty string when both are empty.
Join(dir, rest) ==
    IF dir = EmptyStr /\ rest = EmptyStr THEN EmptyStr
    ELSE IF dir = EmptyStr THEN Clean(rest)
    ELSE IF rest = EmptyStr THEN Clean(dir)
    ELSE Clean(dir \o <<Sep>> \o rest)

\* ------------------------------------------------------------------------
\* Pointers, maps and slices

Nil == <<>>

Ptr(v) == <<v>>

IsNil(p) == Len(p) = 0

Deref(p) == p[1]

EmptyMap == [k \in {} |-> EmptyStr]

\* The values of a map, listed in one of the orders a Go range can take.
Orders(set) ==
    { q \in [1..Cardinality(set) -> set] :
        \A i, k \in 1..Cardinality(set) : i # k => q[i] # q[k] }

\* The elements of a slice.
Elems(seq) == { seq[i] : i \in 1..Len(seq) }

\* ------------------------------------------------------------------------
\* The documents: atc.PlanConfig, atc.TaskConfig, error values

\* atc.PlanConfig.Name() of a step: the get, put or task name, in that order.
Name(planConfig) ==
    IF planConfig.Get # EmptyStr THEN planConfig.Get
    ELSE IF planConfig.Put # EmptyStr THEN planConfig.Put
    ELSE planConfig.Task

\* TemplateData, the value handed to the report template.
TemplateData(type, pipelinePath, jobName, taskName, extras, missing) ==
    [Type |-> type, PipelinePath |-> pipelinePath, JobName |-> jobName,
     TaskName |-> taskName, Extras |-> extras, Missing |-> missing]

\* The error values, one per fmt.Errorf of the source; each carries exactly
\* the values its format string prints.
ErrNoConfig(taskConfigPath) ==
    [msg |-> "failed to load %s; no config provided", path |-> taskConfigPath]

ErrFindPath(taskConfigPath) ==
    [msg |-> "failed to find path for task: %s", path |-> taskConfigPath]

ErrOpen(filePath) ==
    [msg |-> "failed to open task at %s", path |-> filePath]

ErrYaml == [msg |-> "yaml: unmarshal error"]

ErrDefinition(jobName, taskName) ==
    [msg |-> "task %s/%s is missing a definition", job |-> jobName, task |-> taskName]

ErrPath(jobName, taskName) ==
    [msg |-> "task %s/%s is missing a path", job |-> jobName, task |-> taskName]

ErrParity(data) ==
    [msg |-> "Params do not have parity: %s", data |-> data]

ErrResources(data) ==
    [msg |-> "Task invocation is missing resources: %s", data |-> data]

\* ------------------------------------------------------------------------
\* flattenedPlan

\* A flattening that takes the steps of an aggregate or a do for leaves: it
\* does not go below the first level.
RECURSIVE flattenedOneLevel(_)
flattenedOneLevel(seq) ==
    IF Len(seq) = 0 THEN <<>>
    ELSE LET planConfig == Head(seq)
             here == IF ~(planConfig.Aggregate = <<>>)
                         THEN planConfig.Aggregate[1]
                     ELSE IF ~(planConfig.Do = <<>>)
                         THEN planConfig.Do[1]
                     ELSE IF \/ planConfig.Get # <<>>
                             \/ planConfig.Put # <<>>
                             \/ planConfig.Task # <<>>
                         THEN <<planConfig>>
                     ELSE <<>>
         IN here \o flattenedOneLevel(Tail(seq))

\* A flattening that takes the steps of an aggregate in the reverse of their
\* order, and those of a do in their order.
RECURSIVE flattenedAggregateReversed(_)
flattenedAggregateReversed(seq) ==
    IF Len(seq) = 0 THEN <<>>
    ELSE LET planConfig == Head(seq)
             inner == flattenedAggregateReversed(planConfig.Aggregate[1])
             here == IF ~(planConfig.Aggregate = <<>>)
                         THEN [n \in 1..Len(inner) |-> inner[Len(inner) + 1 - n]]
                     ELSE IF ~(planConfig.Do = <<>>)
                         THEN flattenedAggregateReversed(planConfig.Do[1])
                     ELSE IF \/ planConfig.Get # <<>>
                             \/ planConfig.Put # <<>>
                             \/ planConfig.Task # <<>>
                         THEN <<planConfig>>
                     ELSE <<>>
         IN here \o flattenedAggregateReversed(Tail(seq))

RECURSIVE flattenedPlan(_)
flattenedPlan(seq) ==
    IF Len(seq) = 0 THEN <<>>
    ELSE LET planConfig == Head(seq)
             here == IF ~IsNil(planConfig.Aggregate)
                         THEN flattenedPlan(Deref(planConfig.Aggregate))
                     ELSE IF ~IsNil(planConfig.Do)
                         THEN flattenedPlan(Deref(planConfig.Do))
                     ELSE IF \/ planConfig.Get # EmptyStr
                             \/ planConfig.Put # EmptyStr
                             \/ planConfig.Task # EmptyStr
                         THEN <<planConfig>>
                     ELSE <<>>
         IN here \o flattenedPlan(Tail(seq))

\* ------------------------------------------------------------------------
\* loadTask and flattenTask.  fs is the file system: a function from the
\* paths of the readable files to their contents, [yaml |-> TRUE, config |->
\* the atc.TaskConfig the file unmarshals to] or [yaml |-> FALSE] for a file
\* that does not parse.  The result records the files handed to
\* ioutil.ReadFile in read.

\* The file path loadTask builds once the resource root is mapped.
taskFilePath(resourcePath, taskConfigPath) ==
    Join(resourcePath, RemoveAll(taskConfigPath, SplitFirst(taskConfigPath)))

\* loadTask without the test that the root has a non-empty directory: the
\* zero value of the lookup goes into the file path.
loadTaskUnchecked(fs, resourceMap, task) ==
    LET resourceRoot == SplitFirst(task.TaskConfigPath)
        resourcePath == IF resourceRoot \in DOMAIN resourceMap
                        THEN resourceMap[resourceRoot] ELSE EmptyStr
        path == taskFilePath(resourcePath, task.TaskConfigPath)
    IN IF Cardinality(DOMAIN resourceMap) = 0
           THEN [task |-> Nil, err |-> Ptr(ErrNoConfig(task.TaskConfigPath)), read |-> <<>>]
       ELSE IF path \notin DOMAIN fs
           THEN [task |-> Nil, err |-> Ptr(ErrOpen(path)), read |-> <<path>>]
       ELSE IF ~fs[path].yaml
           THEN [task |-> Nil, err |-> Ptr(ErrYaml), read |-> <<path>>]
       ELSE [task |-> Ptr([task EXCEPT !.TaskConfig = Ptr(fs[path].config)]),
             err |-> Nil, read |-> <<path>>]

loadTask(fs, resourceMap, task) ==
    LET resourceRoot == SplitFirst(task.TaskConfigPath)
        path == taskFilePath(resourceMap[resourceRoot], task.TaskConfigPath)
    IN IF Cardinality(DOMAIN resourceMap) = 0
           THEN [task |-> Nil, err |-> Ptr(ErrNoConfig(task.TaskConfigPath)), read |-> <<>>]
       ELSE IF ~(resourceRoot \in DOMAIN resourceMap /\ resourceMap[resourceRoot] # EmptyStr)
           THEN [task |-> Nil, err |-> Ptr(ErrFindPath(task.TaskConfigPath)), read |-> <<>>]
       ELSE IF path \notin DOMAIN fs
           THEN [task |-> Nil, err |-> Ptr(ErrOpen(path)), read |-> <<path>>]
       ELSE IF ~fs[path].yaml
           THEN [task |-> Nil, err |-> Ptr(ErrYaml), read |-> <<path>>]
       ELSE [task |-> Ptr([task EXCEPT !.TaskConfig = Ptr(fs[path].config)]),
             err |-> Nil, read |-> <<path>>]

\* flattenTask without the test of the run path.
flattenTaskAnyPath(fs, resourceMap, task, jobName) ==
    LET loaded == IF task.TaskConfigPath # EmptyStr
                  THEN loadTask(fs, resourceMap, task)
                  ELSE [task |-> Ptr(task), err |-> Nil, read |-> <<>>]
        result == Deref(loaded.task)
    IN IF ~IsNil(loaded.err) THEN loaded
       ELSE IF IsNil(result.TaskConfig)
           THEN [task |-> Nil, err |-> Ptr(ErrDefinition(jobName, Name(task))),
                 read |-> loaded.read]
       ELSE loaded

\* flattenTask loading the file only of a task without an inline definition.
flattenTaskInlineFirst(fs, resourceMap, task, jobName) ==
    LET loaded == IF task.TaskConfigPath # EmptyStr /\ IsNil(task.TaskConfig)
                  THEN loadTask(fs, resourceMap, task)
                  ELSE [task |-> Ptr(task), err |-> Nil, read |-> <<>>]
        result == Deref(loaded.task)
    IN IF ~IsNil(loaded.err) THEN loaded
       ELSE IF IsNil(result.TaskConfig)
           THEN [task |-> Nil, err |-> Ptr(ErrDefinition(jobName, Name(task))),
                 read |-> loaded.read]
       ELSE IF Deref(result.TaskConfig).Run.Path = EmptyStr
           THEN [task |-> Nil, err |-> Ptr(ErrPath(jobName, Name(task))),
                 read |-> loaded.read]
       ELSE loaded

flattenTask(fs, resourceMap, task, jobName) ==
    LET loaded == IF task.TaskConfigPath # EmptyStr
                  THEN loadTask(fs, resourceMap, task)
                  ELSE [task |-> Ptr(task), err |-> Nil, read |-> <<>>]
        result == Deref(loaded.task)
    IN IF ~IsNil(loaded.err) THEN loaded
       ELSE IF IsNil(result.TaskConfig)
           THEN [task |-> Nil, err |-> Ptr(ErrDefinition(jobName, Name(task))),
                 read |-> loaded.read]
       ELSE IF Deref(result.TaskConfig).Run.Path = EmptyStr
           THEN [task |-> Nil, err |-> Ptr(ErrPath(jobName, Name(task))),
                 read |-> loaded.read]
       ELSE loaded

\* ------------------------------------------------------------------------
\* testParityOfParams

\* The missing params of a check that takes a declared param without a value
\* for one that is not passed.
missingParamsOrNull(task) ==
    { k \in DOMAIN Deref(task.TaskConfig).Params :
        k \notin DOMAIN task.Params \/ Deref(task.TaskConfig).Params[k] = EmptyStr }

\* The declared params the invocation does not pass.
missingParams(task) ==
    { k \in DOMAIN Deref(task.TaskConfig).Params : k \notin DOMAIN task.Params }

\* The extras of a check that looks for missing params only.
noExtraParams(task) == {}

\* The params the invocation passes that the definition does not declare.
extraParams(task) ==
    { k \in DOMAIN task.Params : k \notin DOMAIN Deref(task.TaskConfig).Params }

\* The values testParityOfParams can return: nil, or the parity error with
\* the two lists in one of the orders the two map ranges can take.
testParityOfParams(task, jobName, pipelinePath) ==
    IF missingParams(task) # {} \/ extraParams(task) # {}
    THEN { Ptr(ErrParity(TemplateData("params", pipelinePath, jobName, Name(task),
                                      extras, missing))) :
             extras \in Orders(extraParams(task)),
             missing \in Orders(missingParams(task)) }
    ELSE { Nil }

\* ------------------------------------------------------------------------
\* testPresenceOfRequiredResources

\* The inner loop without the input_mapping alternative.
inputPresentByName(resources, task, input) ==
    \E i \in 1..Len(resources) : input.Name = resources[i]

\* The inner loop: some available resource is the input, or is what
\* input_mapping maps the input to.
inputPresent(resources, task, input) ==
    \E i \in 1..Len(resources) :
        \/ input.Name = resources[i]
        \/ /\ input.Name \in DOMAIN task.InputMapping
           /\ task.InputMapping[input.Name] = resources[i]

missingResources(resources, task) ==
    LET inputs == Deref(task.TaskConfig).Inputs
        absent(input) == ~inputPresent(resources, task, input)
        kept == SelectSeq(inputs, absent)
    IN [i \in 1..Len(kept) |-> kept[i].Name]

\* The check with len(missing) >= 0 for its test.
testPresenceAlwaysReports(resources, task, jobName, pipelinePath) ==
    LET missing == missingResources(resources, task)
    IN IF Len(missing) >= 0
       THEN Ptr(ErrResources(TemplateData("resources", pipelinePath, jobName,
                                          Name(task), <<>>, missing)))
       ELSE Nil

testPresenceOfRequiredResources(resources, task, jobName, pipelinePath) ==
    LET missing == missingResources(resources, task)
    IN IF Len(missing) > 0
       THEN Ptr(ErrResources(TemplateData("resources", pipelinePath, jobName,
                                          Name(task), <<>>, missing)))
       ELSE Nil

\* ------------------------------------------------------------------------
\* TestPipe.Run, from the loop over the jobs of the parsed pipeline on.

VARIABLES
    t,              \* the TestPipe: path and config.ResourceMap
    fs,             \* the task files on disk
    config,         \* the parsed pipeline (atc.Config): Jobs, each Name and Plan
    pc,             \* "run" while Run is in its loops, "done" once it returned
    jobIdx,         \* the index of the job the outer loop is at (0 before the first)
    flat,           \* flattenedPlan(&job.Plan) of that job
    stepIdx,        \* the index in flat of the step the inner loop is at
    resources,      \* the job's available resource names
    resourceMap,    \* the job's copy of t.config.ResourceMap
    tasks,          \* the job's canonical tasks that passed both checks
    canonicalTask,  \* what flattenTask returned in the latest step, or nil
    calls,          \* the functions the latest step called, in order
    reads,          \* the files the latest step handed to ioutil.ReadFile
    err,            \* what Run returned (nil until then)
    log,            \* the task steps Run is through with, and whether each passed
    o,              \* the options of the command: o.PipelinePath
    argIdx,         \* the index i in o.PipelinePath that main's loop is at
    pipelineFiles,  \* the pipeline files on disk
    stderr,         \* what the command wrote to the error stream
    exitCode        \* the exit status of the command (nil while it runs)

\* What belongs to main and not to Run.
mainVars == <<o, argIdx, pipelineFiles, stderr, exitCode>>

vars == <<t, fs, config, pc, jobIdx, flat, stepIdx, resources, resourceMap,
          tasks, canonicalTask, calls, reads, err, log, mainVars>>

job == config.Jobs[jobIdx]

planConfig == flat[stepIdx]

\* resourceMap[k] = v of a Go map.
MapSet(m, k, v) == [x \in (DOMAIN m) \cup {k} |-> IF x = k THEN v ELSE m[x]]

\* m[k] of a Go map of strings: the zero value when k is no key.
MapGet(m, k) == IF k \in DOMAIN m THEN m[k] ELSE EmptyStr

\* A loop over the jobs with resources declared outside it: the next job
\* starts with what the jobs before it made available.
NextJobKeepsResources ==
    /\ pc = "run"
    /\ stepIdx > Len(flat)
    /\ jobIdx < Len(config.Jobs)
    /\ jobIdx' = jobIdx + 1
    /\ tasks' = <<>>
    /\ resourceMap' = [k \in DOMAIN t.config.ResourceMap |-> t.config.ResourceMap[k]]
    /\ flat' = flattenedPlan(config.Jobs[jobIdx + 1].Plan)
    /\ stepIdx' = 1
    /\ canonicalTask' = Nil
    /\ calls' = <<>>
    /\ reads' = <<>>
    /\ UNCHANGED <<t, fs, config, pc, err, log, mainVars, resources>>

\* for _, job := range config.Jobs: the next job starts with no resources, no
\* tasks and a fresh copy of the caller's resource map.
NextJob ==
    /\ pc = "run"
    /\ stepIdx > Len(flat)
    /\ jobIdx < Len(config.Jobs)
    /\ jobIdx' = jobIdx + 1
    /\ resources' = <<>>
    /\ tasks' = <<>>
    /\ resourceMap' = [k \in DOMAIN t.config.ResourceMap |-> t.config.ResourceMap[k]]
    /\ flat' = flattenedPlan(config.Jobs[jobIdx + 1].Plan)
    /\ stepIdx' = 1
    /\ canonicalTask' = Nil
    /\ calls' = <<>>
    /\ reads' = <<>>
    /\ UNCHANGED <<t, fs, config, pc, err, log, mainVars>>

\* A get step that registers the alias in the caller's resource map itself.
StepGetInCallerMap ==
    /\ pc = "run"
    /\ stepIdx <= Len(flat)
    /\ planConfig.Get # EmptyStr
    /\ IF planConfig.Resource # EmptyStr
       THEN /\ resources' = resources \o <<planConfig.Get, planConfig.Resource>>
            /\ resourceMap' = MapSet(resourceMap, planConfig.Get,
                                     MapGet(resourceMap, planConfig.Resource))
            /\ t' = [t EXCEPT !.config.ResourceMap =
                        MapSet(t.config.ResourceMap, planConfig.Get,
                               MapGet(t.config.ResourceMap, planConfig.Resource))]
       ELSE /\ resources' = Append(resources, planConfig.Get)
            /\ UNCHANGED <<resourceMap, t>>
    /\ stepIdx' = stepIdx + 1
    /\ canonicalTask' = Nil
    /\ calls' = <<>>
    /\ reads' = <<>>
    /\ UNCHANGED <<fs, config, pc, jobIdx, flat, tasks, err, log, mainVars>>

\* A get step that leaves the entry its name already has in the job's
\* resource map.
StepGetKeepsEntry ==
    /\ pc = "run"
    /\ stepIdx <= Len(flat)
    /\ planConfig.Get # EmptyStr
    /\ IF planConfig.Resource # EmptyStr
       THEN /\ resources' = resources \o <<planConfig.Get, planConfig.Resource>>
            /\ resourceMap' = IF planConfig.Get \in DOMAIN resourceMap
                              THEN resourceMap
                              ELSE MapSet(resourceMap, planConfig.Get,
                                          MapGet(resourceMap, planConfig.Resource))
       ELSE /\ resources' = Append(resources, planConfig.Get)
            /\ UNCHANGED resourceMap
    /\ stepIdx' = stepIdx + 1
    /\ canonicalTask' = Nil
    /\ calls' = <<>>
    /\ reads' = <<>>
    /\ UNCHANGED <<t, fs, config, pc, jobIdx, flat, tasks, err, log, mainVars>>

\* case planConfig.Get != ""
StepGet ==
    /\ pc = "run"
    /\ stepIdx <= Len(flat)
    /\ planConfig.Get # EmptyStr
    /\ IF planConfig.Resource # EmptyStr
       THEN /\ resources' = resources \o <<planConfig.Get, planConfig.Resource>>
            /\ resourceMap' = MapSet(resourceMap, planConfig.Get,
                                     MapGet(resourceMap, planConfig.Resource))
       ELSE /\ resources' = Append(resources, planConfig.Get)
            /\ UNCHANGED resourceMap
    /\ stepIdx' = stepIdx + 1
    /\ canonicalTask' = Nil
    /\ calls' = <<>>
    /\ reads' = <<>>
    /\ UNCHANGED <<t, fs, config, pc, jobIdx, flat, tasks, err, log, mainVars>>

\* A put step that leaves the available resources as they are.
StepPutAddsNothing ==
    /\ pc = "run"
    /\ stepIdx <= Len(flat)
    /\ planConfig.Get = EmptyStr
    /\ planConfig.Put # EmptyStr
    /\ stepIdx' = stepIdx + 1
    /\ canonicalTask' = Nil
    /\ calls' = <<>>
    /\ reads' = <<>>
    /\ UNCHANGED <<t, fs, config, pc, jobIdx, flat, resources, resourceMap, tasks, err,
                   log, mainVars>>

\* A put step that leaves its name as the only available resource.
StepPutReplaces ==
    /\ pc = "run"
    /\ stepIdx <= Len(flat)
    /\ planConfig.Get = EmptyStr
    /\ planConfig.Put # EmptyStr
    /\ resources' = <<planConfig.Put>>
    /\ stepIdx' = stepIdx + 1
    /\ canonicalTask' = Nil
    /\ calls' = <<>>
    /\ reads' = <<>>
    /\ UNCHANGED <<t, fs, config, pc, jobIdx, flat, resourceMap, tasks, err,
                   log, mainVars>>

\* case planConfig.Put != ""
StepPut ==
    /\ pc = "run"
    /\ stepIdx <= Len(flat)
    /\ planConfig.Get = EmptyStr
    /\ planConfig.Put # EmptyStr
    /\ resources' = Append(resources, planConfig.Put)
    /\ stepIdx' = stepIdx + 1
    /\ canonicalTask' = Nil
    /\ calls' = <<>>
    /\ reads' = <<>>
    /\ UNCHANGED <<t, fs, config, pc, jobIdx, flat, resourceMap, tasks, err, log, mainVars>>

\* The names a task that passed its checks adds: its declared outputs in
\* order, then the values of its output_mapping in the order the range takes.
outputNames(task) ==
    LET outputs == Deref(task.TaskConfig).Outputs
    IN [i \in 1..Len(outputs) |-> outputs[i].Name]

\* The keys of output_mapping in place of its values.
mappedKeys(task, keys) == keys

mappedNames(task, keys) ==
    [i \in 1..Len(keys) |-> task.OutputMapping[keys[i]]]

\* The record of the current task step: where it is and whether it passed.
Entry(passed) ==
    [pipeline |-> argIdx, job |-> jobIdx, step |-> stepIdx, passed |-> passed]

\* A Run that keeps the error and goes on to the next step.
FailGoesOn(e, called, resolved, read) ==
    /\ err' = e
    /\ pc' = pc
    /\ calls' = called
    /\ canonicalTask' = resolved
    /\ reads' = read
    /\ log' = Append(log, Entry(FALSE))
    /\ stepIdx' = stepIdx + 1
    /\ UNCHANGED <<resources, tasks>>

\* Run returns e at the current step.
Fail(e, called, resolved, read) ==
    /\ err' = e
    /\ pc' = "done"
    /\ calls' = called
    /\ canonicalTask' = resolved
    /\ reads' = read
    /\ log' = Append(log, Entry(FALSE))
    /\ UNCHANGED <<stepIdx, resources, tasks>>

\* A task step that looks for the task's inputs before it compares the
\* params.
StepTaskPresenceFirst ==
    /\ pc = "run"
    /\ stepIdx <= Len(flat)
    /\ planConfig.Get = EmptyStr
    /\ planConfig.Put = EmptyStr
    /\ planConfig.Task # EmptyStr
    /\ LET flattened == flattenTask(fs, resourceMap, planConfig, job.Name)
           task == Deref(flattened.task)
       IN IF ~IsNil(flattened.err)
          THEN Fail(flattened.err, <<"flattenTask">>, Nil, flattened.read)
          ELSE LET presence == testPresenceOfRequiredResources(
                                   resources, task, job.Name, t.path)
               IN IF ~IsNil(presence)
                  THEN Fail(presence,
                            <<"flattenTask", "testPresenceOfRequiredResources">>,
                            flattened.task, flattened.read)
                  ELSE \E parity \in testParityOfParams(task, job.Name, t.path) :
                         IF ~IsNil(parity)
                         THEN Fail(parity,
                                   <<"flattenTask", "testPresenceOfRequiredResources",
                                     "testParityOfParams">>,
                                   flattened.task, flattened.read)
                         ELSE \E keys \in Orders(DOMAIN task.OutputMapping) :
                                /\ tasks' = Append(tasks, task)
                                /\ resources' = resources \o outputNames(task)
                                                  \o mappedNames(task, keys)
                                /\ canonicalTask' = flattened.task
                                /\ calls' = <<"flattenTask",
                                              "testPresenceOfRequiredResources",
                                              "testParityOfParams">>
                                /\ reads' = flattened.read
                                /\ stepIdx' = stepIdx + 1
                                /\ log' = Append(log, Entry(TRUE))
                                /\ UNCHANGED <<pc, err>>
    /\ UNCHANGED <<t, fs, config, jobIdx, flat, resourceMap, mainVars>>

\* A task step that appends the task's outputs before the task's inputs are
\* looked for.
StepTaskOutputsFirst ==
    /\ pc = "run"
    /\ stepIdx <= Len(flat)
    /\ planConfig.Get = EmptyStr
    /\ planConfig.Put = EmptyStr
    /\ planConfig.Task # EmptyStr
    /\ LET flattened == flattenTask(fs, resourceMap, planConfig, job.Name)
           task == Deref(flattened.task)
       IN IF ~IsNil(flattened.err)
          THEN Fail(flattened.err, <<"flattenTask">>, Nil, flattened.read)
          ELSE \E parity \in testParityOfParams(task, job.Name, t.path) :
                 IF ~IsNil(parity)
                 THEN Fail(parity, <<"flattenTask", "testParityOfParams">>,
                           flattened.task, flattened.read)
                 ELSE \E keys \in Orders(DOMAIN task.OutputMapping) :
                        LET grown == resources \o outputNames(task)
                                       \o mappedNames(task, keys)
                            presence == testPresenceOfRequiredResources(
                                            grown, task, job.Name, t.path)
                        IN IF ~IsNil(presence)
                           THEN Fail(presence,
                                     <<"flattenTask", "testParityOfParams",
                                       "testPresenceOfRequiredResources">>,
                                     flattened.task, flattened.read)
                           ELSE /\ tasks' = Append(tasks, task)
                                /\ resources' = grown
                                /\ canonicalTask' = flattened.task
                                /\ calls' = <<"flattenTask", "testParityOfParams",
                                              "testPresenceOfRequiredResources">>
                                /\ reads' = flattened.read
                                /\ stepIdx' = stepIdx + 1
                                /\ log' = Append(log, Entry(TRUE))
                                /\ UNCHANGED <<pc, err>>
    /\ UNCHANGED <<t, fs, config, jobIdx, flat, resourceMap, mainVars>>

\* case planConfig.Task != ""
StepTask ==
    /\ pc = "run"
    /\ stepIdx <= Len(flat)
    /\ planConfig.Get = EmptyStr
    /\ planConfig.Put = EmptyStr
    /\ planConfig.Task # EmptyStr
    /\ LET flattened == flattenTask(fs, resourceMap, planConfig, job.Name)
           task == Deref(flattened.task)
       IN IF ~IsNil(flattened.err)
          THEN Fail(flattened.err, <<"flattenTask">>, Nil, flattened.read)
          ELSE \E parity \in testParityOfParams(task, job.Name, t.path) :
                 IF ~IsNil(parity)
                 THEN Fail(parity, <<"flattenTask", "testParityOfParams">>,
                           flattened.task, flattened.read)
                 ELSE LET presence == testPresenceOfRequiredResources(
                                          resources, task, job.Name, t.path)
                      IN IF ~IsNil(presence)
                         THEN Fail(presence,
                                   <<"flattenTask", "testParityOfParams",
                                     "testPresenceOfRequiredResources">>,
                                   flattened.task, flattened.read)
                         ELSE \E keys \in Orders(DOMAIN task.OutputMapping) :
                                /\ tasks' = Append(tasks, task)
                                /\ resources' = resources \o outputNames(task)
                                                  \o mappedNames(task, keys)
                                /\ canonicalTask' = flattened.task
                                /\ calls' = <<"flattenTask", "testParityOfParams",
                                              "testPresenceOfRequiredResources">>
                                /\ reads' = flattened.read
                                /\ stepIdx' = stepIdx + 1
                                /\ log' = Append(log, Entry(TRUE))
                                /\ UNCHANGED <<pc, err>>
    /\ UNCHANGED <<t, fs, config, jobIdx, flat, resourceMap, mainVars>>

\* return nil, once every job is done
Return ==
    /\ pc = "run"
    /\ stepIdx > Len(flat)
    /\ jobIdx = Len(config.Jobs)
    /\ pc' = "done"
    /\ err' = Nil
    /\ UNCHANGED <<t, fs, config, jobIdx, flat, stepIdx, resources, resourceMap,
                   tasks, canonicalTask, calls, reads, log, mainVars>>

Next == NextJob \/ StepGet \/ StepPut \/ StepTask \/ Return

\* ------------------------------------------------------------------------
\* The inputs of Run: pipelines, resource maps and task files

MaxSteps == 3

ResA == <<"a">>

ResS == <<"s">>

Names == {ResA, ResS}

DirD == <<"d">>

ParamP == <<"p">>

Command == <<"c">>

TaskName == <<"t">>

JobOne == <<"j">>

JobTwo == <<"k">>

PipelinePath == <<"p", "l">>

\* file: a/t
FileAT == <<"a", Sep, "t">>

\* The zero value of atc.PlanConfig.
ZeroPlanConfig ==
    [Get |-> EmptyStr, Put |-> EmptyStr, Task |-> EmptyStr, Resource |-> EmptyStr,
     TaskConfigPath |-> EmptyStr, TaskConfig |-> Nil, Params |-> EmptyMap,
     InputMapping |-> EmptyMap, OutputMapping |-> EmptyMap,
     Aggregate |-> Nil, Do |-> Nil]

GetStep(name, resource) ==
    [ZeroPlanConfig EXCEPT !.Get = name, !.Resource = resource]

PutStep(name) == [ZeroPlanConfig EXCEPT !.Put = name]

TaskStep(file, definition, params, inputMapping, outputMapping) ==
    [ZeroPlanConfig EXCEPT !.Task = TaskName, !.TaskConfigPath = file,
                           !.TaskConfig = definition, !.Params = params,
                           !.InputMapping = inputMapping,
                           !.OutputMapping = outputMapping]

AggregateStep(seq) == [ZeroPlanConfig EXCEPT !.Aggregate = Ptr(seq)]

DoStep(seq) == [ZeroPlanConfig EXCEPT !.Do = Ptr(seq)]

Named(names) == [i \in 1..Len(names) |-> [Name |-> names[i]]]

\* An atc.TaskConfig.
TaskConfigOf(runPath, params, inputs, outputs) ==
    [Run |-> [Path |-> runPath], Params |-> params,
     Inputs |-> Named(inputs), Outputs |-> Named(outputs)]

\* The maps from some of the keys to the values.
Maps(keys, values) == UNION { [d -> values] : d \in SUBSET keys }

\* The maps that rename at most one name, to the other name.
Renames == { m \in Maps(Names, Names) :
               Cardinality(DOMAIN m) <= 1 /\ \A k \in DOMAIN m : m[k] # k }

SeqsUpTo(pool, n) == UNION { [1..m -> pool] : m \in 0..n }

\* get: n
Gets == { GetStep(n, EmptyStr) : n \in Names }

\* get: n with resource: r
RenamingGets == { GetStep(n, r) : n \in Names, r \in Names }

Puts == { PutStep(n) : n \in Names }

\* Inline tasks whose params match: they differ in what they make, or in how
\* they ask for the resource a.
Producers ==
    { TaskStep(EmptyStr, Ptr(TaskConfigOf(Command, EmptyMap, <<>>, outputs)),
               EmptyMap, EmptyMap, outputMapping) :
        outputs \in SeqsUpTo({ResS}, 1),
        outputMapping \in { m \in Renames : DOMAIN m \subseteq {ResS} } }

Consumers ==
    { TaskStep(EmptyStr, Ptr(TaskConfigOf(Command, EmptyMap, inputs, <<>>)),
               EmptyMap, inputMapping, EmptyMap) :
        inputs \in {<<ResA>>},
        inputMapping \in Renames }

\* Tasks that differ in where their definition comes from.
Definitions ==
    { Nil } \cup { Ptr(TaskConfigOf(runPath, EmptyMap, <<>>, <<>>)) :
                     runPath \in {EmptyStr, Command} }

Invocations ==
    { TaskStep(file, definition, EmptyMap, EmptyMap, EmptyMap) :
        file \in {EmptyStr, FileAT},
        definition \in Definitions }

\* The task files: none, or d/t, which does not parse, or has no run path,
\* or has one and declares the param p (which no invocation passes).
FileDT == DirD \o <<Sep, "t">>

FileSystems ==
    { EmptyMap,
      [f \in {FileDT} |-> [yaml |-> FALSE]],
      [f \in {FileDT} |->
         [yaml |-> TRUE, config |-> TaskConfigOf(EmptyStr, EmptyMap, <<>>, <<>>)]],
      [f \in {FileDT} |->
         [yaml |-> TRUE,
          config |-> TaskConfigOf(Command, [k \in {ParamP} |-> EmptyStr], <<>>, <<>>)]] }

\* The steps of a pipeline, dealt to two jobs; wrap puts each job's steps in
\* one aggregate or one do.
Wrap(seq, wrap) ==
    IF wrap = "aggregate" THEN <<AggregateStep(seq)>>
    ELSE IF wrap = "do" THEN <<DoStep(seq)>>
    ELSE seq

Pipeline(steps, cut, wrap) ==
    [Jobs |-> << [Name |-> JobOne, Plan |-> Wrap(SubSeq(steps, 1, cut), wrap)],
                 [Name |-> JobTwo,
                  Plan |-> Wrap(SubSeq(steps, cut + 1, Len(steps)), wrap)] >>]

\* main called with the one pipeline path, the pipeline being what is in its
\* file.
OnePipeline(pipeline) ==
    /\ o = [PipelinePath |-> <<PipelinePath>>]
    /\ argIdx = 1
    /\ pipelineFiles = [f \in {PipelinePath} |-> [yaml |-> TRUE, config |-> pipeline]]
    /\ stderr = <<>>
    /\ exitCode = Nil
    /\ log = <<>>

\* Run is entered with the pipeline parsed and the caller's resource map.
Start(m, files, pipeline) ==
    /\ OnePipeline(pipeline)
    /\ t = [path |-> PipelinePath, config |-> [ResourceMap |-> m]]
    /\ fs = files
    /\ config = pipeline
    /\ pc = "run"
    /\ jobIdx = 0
    /\ flat = <<>>
    /\ stepIdx = 1
    /\ resources = <<>>
    /\ resourceMap = EmptyMap
    /\ tasks = <<>>
    /\ canonicalTask = Nil
    /\ calls = <<>>
    /\ reads = <<>>
    /\ err = Nil

\* Pipelines of inline tasks, run without a resource map.
AvailabilitySteps ==
    Gets \cup { g \in RenamingGets : g.Get # g.Resource } \cup Puts
         \cup Producers \cup Consumers

InitAvailability ==
    \E steps \in SeqsUpTo(AvailabilitySteps, MaxSteps) :
        \E cut \in 0..Len(steps) :
            Start(EmptyMap, EmptyMap, Pipeline(steps, cut, "none"))

\* The same with each job's steps inside one aggregate or one do.
NestedSteps == Puts \cup Consumers

InitNested ==
    \E steps \in SeqsUpTo(NestedSteps, MaxSteps) :
        \E cut \in 0..Len(steps), wrap \in {"aggregate", "do"} :
            Start(EmptyMap, EmptyMap, Pipeline(steps, cut, wrap))

\* Pipelines of renaming gets and tasks with a file, an inline definition,
\* both or neither, run with a resource map and task files.
ResolutionSteps == RenamingGets \cup Invocations

\* The caller's resource maps: none, or one resource in the directory d.
ResourceMaps == { m \in Maps(Names, {DirD}) : Cardinality(DOMAIN m) <= 1 }

InitResolution ==
    \E m \in ResourceMaps :
      \E files \in { f \in FileSystems : m = EmptyMap => f = EmptyMap } :
        \E steps \in SeqsUpTo(ResolutionSteps, MaxSteps) :
            \E cut \in 0..Len(steps) :
                Start(m, files, Pipeline(steps, cut, "none"))

\* Inline tasks that need the resource a and make it themselves, as a
\* declared output or as the local name of one.
SelfFeeders ==
    { TaskStep(EmptyStr, Ptr(TaskConfigOf(Command, EmptyMap, <<ResA>>, <<ResA>>)),
               EmptyMap, EmptyMap, EmptyMap),
      TaskStep(EmptyStr, Ptr(TaskConfigOf(Command, EmptyMap, <<ResA>>, <<ResS>>)),
               EmptyMap, EmptyMap, [k \in {ResS} |-> ResA]) }

OwnOutputSteps ==
    {PutStep(ResS), GetStep(ResA, EmptyStr), GetStep(ResS, ResA)} \cup SelfFeeders

\* Pipelines of such tasks among gets and puts.
InitOwnOutputs ==
    \E steps \in SeqsUpTo(OwnOutputSteps, MaxSteps) :
        \E cut \in 0..Len(steps) :
            Start(EmptyMap, EmptyMap, Pipeline(steps, cut, "none"))

SpecOwnOutputs == InitOwnOutputs /\ [][Next]_vars

\* Inline tasks that need the resource a and declare the param p, invoked
\* with the param or without it; and a task without a definition, invoked
\* with a param.
OrderSteps ==
    { TaskStep(EmptyStr,
               Ptr(TaskConfigOf(Command, [k \in {ParamP} |-> EmptyStr], <<ResA>>, <<>>)),
               params, EmptyMap, EmptyMap) :
        params \in Maps({ParamP}, {Command}) }
      \cup { TaskStep(EmptyStr, Nil, [k \in {ParamP} |-> Command], EmptyMap, EmptyMap),
             GetStep(ResA, EmptyStr), PutStep(ResS) }

InitOrder ==
    \E steps \in SeqsUpTo(OrderSteps, MaxSteps) :
        \E cut \in 0..Len(steps) :
            Start(EmptyMap, EmptyMap, Pipeline(steps, cut, "none"))

SpecOrder == InitOrder /\ [][Next]_vars

\* Pipelines whose jobs hold their steps, gets and puts of the resources a
\* and s and tasks that need a, in one aggregate or one do.
GroupSteps ==
    { GetStep(ResA, EmptyStr), PutStep(ResA), PutStep(ResS),
      TaskStep(EmptyStr, Ptr(TaskConfigOf(Command, EmptyMap, <<ResA>>, <<>>)),
               EmptyMap, EmptyMap, EmptyMap) }

InitGroups ==
    \E steps \in SeqsUpTo(GroupSteps, MaxSteps) :
        \E cut \in 0..Len(steps), wrap \in {"aggregate", "do"} :
            Start(EmptyMap, EmptyMap, Pipeline(steps, cut, wrap))

SpecGroups == InitGroups /\ [][Next]_vars

Init == InitAvailability \/ InitNested \/ InitResolution

Spec == Init /\ [][Next]_vars

\* ------------------------------------------------------------------------
\* testParityOfParams and testPresenceOfRequiredResources on their own: the
\* resolved task (and the resources) are drawn, then the function is called.

MaxResources == 2

MaxInputs == 2

ParamQ == <<"q">>

ParamKeys == {ParamP, ParamQ}

ParamValues == {EmptyStr, <<"v">>}

\* The variables the call does not use.
Idle ==
    /\ OnePipeline([Jobs |-> << [Name |-> JobOne, Plan |-> <<>>] >>])
    /\ t = [path |-> PipelinePath, config |-> [ResourceMap |-> EmptyMap]]
    /\ fs = EmptyMap
    /\ config = [Jobs |-> << [Name |-> JobOne, Plan |-> <<>>] >>]
    /\ pc = "call"
    /\ jobIdx = 1
    /\ flat = <<>>
    /\ stepIdx = 1
    /\ resourceMap = EmptyMap
    /\ tasks = <<>>
    /\ calls = <<>>
    /\ reads = <<>>
    /\ err = Nil

InitParity ==
    \E declared \in Maps(ParamKeys, ParamValues), invoked \in Maps(ParamKeys, ParamValues) :
        /\ Idle
        /\ resources = <<>>
        /\ canonicalTask =
             Ptr(TaskStep(EmptyStr, Ptr(TaskConfigOf(Command, declared, <<>>, <<>>)),
                          invoked, EmptyMap, EmptyMap))

CallParity ==
    /\ pc = "call"
    /\ \E result \in testParityOfParams(Deref(canonicalTask), job.Name, t.path) :
           err' = result
    /\ pc' = "done"
    /\ calls' = <<"testParityOfParams">>
    /\ UNCHANGED <<t, fs, config, jobIdx, flat, stepIdx, resources, resourceMap,
                   tasks, canonicalTask, reads, log, mainVars>>

NextParity == CallParity

SpecParity == InitParity /\ [][NextParity]_vars

InitPresence ==
    \E available \in SeqsUpTo(Names, MaxResources), inputs \in SeqsUpTo(Names, MaxInputs),
       inputMapping \in Maps(Names, Names) :
        /\ Idle
        /\ resources = available
        /\ canonicalTask =
             Ptr(TaskStep(EmptyStr, Ptr(TaskConfigOf(Command, EmptyMap, inputs, <<>>)),
                          EmptyMap, inputMapping, EmptyMap))

CallPresence ==
    /\ pc = "call"
    /\ err' = testPresenceOfRequiredResources(resources, Deref(canonicalTask),
                                              job.Name, t.path)
    /\ pc' = "done"
    /\ calls' = <<"testPresenceOfRequiredResources">>
    /\ UNCHANGED <<t, fs, config, jobIdx, flat, stepIdx, resources, resourceMap,
                   tasks, canonicalTask, reads, log, mainVars>>

NextPresence == CallPresence

SpecPresence == InitPresence /\ [][NextPresence]_vars

\* loadTask on its own: a task step with a file path, a resource map with at
\* most the first segment of the path in it, and the files there may be.
MaxPath == 4

PathChars == {"a", "t", Sep}

TaskPaths == UNION { [1..n -> PathChars] : n \in 1..MaxPath }

FileDAT == DirD \o <<Sep, "a", Sep, "t">>

TaskFiles ==
    { [f \in files |-> [yaml |-> TRUE,
                        config |-> TaskConfigOf(Command, EmptyMap, <<>>, <<>>)]] :
        files \in SUBSET {FileDT, FileDAT} }

InitLoad ==
    \E path \in TaskPaths, files \in TaskFiles :
        \E m \in {EmptyMap} \cup { [n \in {SplitFirst(path)} |-> dir] :
                                     dir \in {EmptyStr, DirD} } :
            LET task == TaskStep(path, Nil, EmptyMap, EmptyMap, EmptyMap)
                pipeline == [Jobs |-> << [Name |-> JobOne, Plan |-> <<task>>] >>]
            IN /\ OnePipeline(pipeline)
               /\ t = [path |-> PipelinePath, config |-> [ResourceMap |-> m]]
               /\ fs = files
               /\ config = pipeline
               /\ pc = "call"
               /\ jobIdx = 1
               /\ flat = <<task>>
               /\ stepIdx = 1
               /\ resources = <<>>
               /\ resourceMap = m
               /\ tasks = <<>>
               /\ canonicalTask = Nil
               /\ calls = <<>>
               /\ reads = <<>>
               /\ err = Nil

CallLoad ==
    /\ pc = "call"
    /\ LET result == loadTask(fs, resourceMap, flat[stepIdx])
       IN /\ canonicalTask' = result.task
          /\ err' = result.err
          /\ reads' = result.read
    /\ pc' = "done"
    /\ calls' = <<"loadTask">>
    /\ UNCHANGED <<t, fs, config, jobIdx, flat, stepIdx, resources, resourceMap,
                   tasks, log, mainVars>>

NextLoad == CallLoad

SpecLoad == InitLoad /\ [][NextLoad]_vars

\* ------------------------------------------------------------------------
\* The command: main, from its loop over the pipeline paths on, and Run from
\* its first line.

\* testpipe.New
New(path, c) == [path |-> path, config |-> c]

ErrReadPipeline(path) == [msg |-> "open %s", args |-> <<path>>]

ErrUnmarshalPipeline(path) ==
    [msg |-> "failed to unmarshal pipeline at %s: %s", args |-> <<path>>]

\* for i := range o.PipelinePath: t := testpipe.New(path, config), and Run
\* is entered. The config main has read is the one t carries all along.
MainLoop ==
    /\ pc = "main"
    /\ argIdx < Len(o.PipelinePath)
    /\ argIdx' = argIdx + 1
    /\ t' = New(o.PipelinePath[argIdx + 1], t.config)
    /\ pc' = "load"
    /\ err' = Nil
    /\ jobIdx' = 0
    /\ flat' = <<>>
    /\ stepIdx' = 1
    /\ resources' = <<>>
    /\ resourceMap' = EmptyMap
    /\ tasks' = <<>>
    /\ canonicalTask' = Nil
    /\ calls' = <<>>
    /\ reads' = <<>>
    /\ UNCHANGED <<fs, config, log, o, pipelineFiles, stderr, exitCode>>

\* Run, up to the loop over the jobs: the pipeline file is read and parsed.
RunLoad ==
    /\ pc = "load"
    /\ IF t.path \notin DOMAIN pipelineFiles
       THEN /\ err' = Ptr(ErrReadPipeline(t.path))
            /\ pc' = "done"
            /\ UNCHANGED config
       ELSE IF ~pipelineFiles[t.path].yaml
       THEN /\ err' = Ptr(ErrUnmarshalPipeline(t.path))
            /\ pc' = "done"
            /\ UNCHANGED config
       ELSE /\ config' = pipelineFiles[t.path].config
            /\ pc' = "run"
            /\ UNCHANGED err
    /\ UNCHANGED <<t, fs, jobIdx, flat, stepIdx, resources, resourceMap, tasks,
                   canonicalTask, calls, reads, log, mainVars>>

\* A main that goes on to the next pipeline whatever Run returned.
MainCheckGoesOn ==
    /\ pc = "done"
    /\ pc' = "main"
    /\ UNCHANGED <<t, fs, config, jobIdx, flat, stepIdx, resources, resourceMap, tasks,
                   canonicalTask, calls, reads, err, log, mainVars>>

\* if err != nil: the error goes to the error stream and the command exits
\* with status 1; the loop goes on otherwise.
MainCheck ==
    /\ pc = "done"
    /\ IF ~IsNil(err)
       THEN /\ stderr' = Append(stderr, Deref(err))
            /\ exitCode' = Ptr(1)
            /\ pc' = "exit"
       ELSE /\ pc' = "main"
            /\ UNCHANGED <<stderr, exitCode>>
    /\ UNCHANGED <<t, fs, config, jobIdx, flat, stepIdx, resources, resourceMap, tasks,
                   canonicalTask, calls, reads, err, log, o, argIdx, pipelineFiles>>

\* main returns after the last pipeline: the command exits with status 0.
MainReturn ==
    /\ pc = "main"
    /\ argIdx = Len(o.PipelinePath)
    /\ exitCode' = Ptr(0)
    /\ pc' = "exit"
    /\ UNCHANGED <<t, fs, config, jobIdx, flat, stepIdx, resources, resourceMap, tasks,
                   canonicalTask, calls, reads, err, log, o, argIdx, pipelineFiles,
                   stderr>>

NextMain ==
    \/ MainLoop
    \/ RunLoad
    \/ NextJob
    \/ StepGet
    \/ StepPut
    \/ StepTask
    \/ Return
    \/ MainCheck
    \/ MainReturn

MaxPipelines == 3

\* The path of the k-th pipeline: p, pp, ppp, ...
PathOf(k) == [n \in 1..k |-> "p"]

\* A task that needs the resource a.
NeedsA ==
    TaskStep(EmptyStr, Ptr(TaskConfigOf(Command, EmptyMap, <<ResA>>, <<>>)),
             EmptyMap, EmptyMap, EmptyMap)

\* The plans of the jobs: one without a task, one whose task passes, one
\* whose task fails.
MainPlans ==
    { <<PutStep(ResS)>>,
      <<GetStep(ResA, EmptyStr), NeedsA>>,
      <<AggregateStep(<<NeedsA>>)>> }

\* What the file of a pipeline can hold: something that does not parse, or
\* a pipeline of one or two jobs.
MainFiles ==
    { [yaml |-> FALSE] }
      \cup { [yaml |-> TRUE, config |-> [Jobs |-> << [Name |-> JobOne, Plan |-> p] >>]] :
               p \in MainPlans }
      \cup { [yaml |-> TRUE,
              config |-> [Jobs |-> << [Name |-> JobOne, Plan |-> p],
                                      [Name |-> JobTwo, Plan |-> q] >>]] :
               p \in MainPlans, q \in MainPlans }

\* main has parsed its flags and read its config: up to MaxPipelines paths,
\* some of files that are not there.
InitMain ==
    \E n \in 0..MaxPipelines :
        \E there \in SUBSET (1..n) :
            \E files \in [there -> MainFiles] :
                /\ o = [PipelinePath |-> [k \in 1..n |-> PathOf(k)]]
                /\ pipelineFiles = [f \in { PathOf(k) : k \in there } |-> files[Len(f)]]
                /\ argIdx = 0
                /\ stderr = <<>>
                /\ exitCode = Nil
                /\ log = <<>>
                /\ t = New(EmptyStr, [ResourceMap |-> EmptyMap])
                /\ fs = EmptyMap
                /\ config = [Jobs |-> <<>>]
                /\ pc = "main"
                /\ jobIdx = 0
                /\ flat = <<>>
                /\ stepIdx = 1
                /\ resources = <<>>
                /\ resourceMap = EmptyMap
                /\ tasks = <<>>
                /\ canonicalTask = Nil
                /\ calls = <<>>
                /\ reads = <<>>
                /\ err = Nil

SpecMain == InitMain /\ [][NextMain]_vars

\* ------------------------------------------------------------------------
\* flattenedPlan alone, on step trees two groups deep.

MaxChildren == 2

\* The leaves: a get, a put, a task, and a node of no shape.
Leaves == {GetStep(ResA, EmptyStr), PutStep(ResS), NeedsA, ZeroPlanConfig}

\* No step, or one leaf.
Optional == {<<>>} \cup { <<l>> : l \in Leaves }

Groups(children) == {AggregateStep(children), DoStep(children)}

\* An aggregate or a do of leaves.
InnerGroups == UNION { Groups(q) : q \in SeqsUpTo(Leaves, MaxChildren) }

\* A plan is a leaf or none, then an aggregate or a do that holds the same
\* around an inner group, then a leaf or none.
InitFlatten ==
    \E first \in Optional, second \in Optional, third \in Optional, last \in Optional :
        \E inner \in InnerGroups :
            \E outer \in Groups(second \o <<inner>> \o third) :
                /\ OnePipeline([Jobs |-> << [Name |-> JobOne,
                                            Plan |-> first \o <<outer>> \o last] >>])
                /\ config = [Jobs |-> << [Name |-> JobOne,
                                         Plan |-> first \o <<outer>> \o last] >>]
                /\ t = New(PipelinePath, [ResourceMap |-> EmptyMap])
                /\ fs = EmptyMap
                /\ pc = "call"
                /\ jobIdx = 1
                /\ flat = <<>>
                /\ stepIdx = 1
                /\ resources = <<>>
                /\ resourceMap = EmptyMap
                /\ tasks = <<>>
                /\ canonicalTask = Nil
                /\ calls = <<>>
                /\ reads = <<>>
                /\ err = Nil

\* flattenedPlan(&job.Plan): it returns a slice and nothing else; nothing in
\* it returns an error or ends the process.
CallFlatten ==
    /\ pc = "call"
    /\ flat' = flattenedPlan(job.Plan)
    /\ pc' = "done"
    /\ calls' = <<"flattenedPlan">>
    /\ UNCHANGED <<t, fs, config, jobIdx, stepIdx, resources, resourceMap, tasks,
                   canonicalTask, reads, err, log, mainVars>>

NextFlatten == CallFlatten

SpecFlatten == InitFlatten /\ [][NextFlatten]_vars

\* ------------------------------------------------------------------------
\* What the properties speak of

IsGet(step) == step.Get # EmptyStr

IsPut(step) == step.Get = EmptyStr /\ step.Put # EmptyStr

IsTask(step) == step.Get = EmptyStr /\ step.Put = EmptyStr /\ step.Task # EmptyStr

\* Run returned an error.
Failed == pc = "done" /\ ~IsNil(err)

\* The index in flat of the latest step the inner loop has processed in this
\* job (0 when none): a failing step is the one the loop stopped at.
Processed == IF Failed THEN stepIdx ELSE stepIdx - 1

\* The latest step processed was a task step.
AfterTask == Processed >= 1 /\ IsTask(flat[Processed])

lastStep == flat[Processed]

\* flattenTask succeeded in the latest step.
Resolved == AfterTask /\ ~IsNil(canonicalTask)

resolvedTask == Deref(canonicalTask)

definition(task) == Deref(task.TaskConfig)

inputNames(task) == { definition(task).Inputs[i].Name : i \in 1..Len(definition(task).Inputs) }

declaredOutputs(task) ==
    { definition(task).Outputs[i].Name : i \in 1..Len(definition(task).Outputs) }

mappedOutputs(task) == { task.OutputMapping[k] : k \in DOMAIN task.OutputMapping }

available == Elems(resources)

\* The steps of flat before index i that passed as tasks are, in order, the
\* elements of tasks.
taskNumber(i) == Cardinality({ k \in 1..i : IsTask(flat[k]) })

passedTask(i) == tasks[taskNumber(i)]

TypeOK ==
    /\ pc \in {"run", "done", "call"}
    /\ jobIdx \in 0..Len(config.Jobs)
    /\ stepIdx \in 1..(Len(flat) + 1)
    /\ Len(tasks) = taskNumber(stepIdx - 1)

\* ------------------------------------------------------------------------
\* Properties

paramsMatch(task) == DOMAIN definition(task).Params = DOMAIN task.Params

IsParityError(e) == ~IsNil(e) /\ Deref(e).msg = "Params do not have parity: %s"

IsResourcesError(e) ==
    ~IsNil(e) /\ Deref(e).msg = "Task invocation is missing resources: %s"

\* What a step produces as section 4.3 of the spec has it: a get or a put
\* its name, a task its declared outputs and the local names of its
\* output_mapping.
producedByPassed(k) ==
    IF IsGet(flat[k]) THEN {flat[k].Get}
    ELSE IF IsPut(flat[k]) THEN {flat[k].Put}
    ELSE declaredOutputs(passedTask(k)) \cup mappedOutputs(passedTask(k))

producedBefore(i) == UNION { producedByPassed(k) : k \in 1..(i - 1) }

\* The same of a step the loop has not reached: of a task, what its inline
\* definition declares.
producedByLater(k) ==
    IF IsGet(flat[k]) THEN {flat[k].Get}
    ELSE IF IsPut(flat[k]) THEN {flat[k].Put}
    ELSE mappedOutputs(flat[k]) \cup
         (IF IsNil(flat[k].TaskConfig) \/ flat[k].TaskConfigPath # EmptyStr
          THEN {} ELSE declaredOutputs(flat[k]))

producedAfter(i) == UNION { producedByLater(k) : k \in (i + 1)..Len(flat) }

\* The input R of the task step at i is produced only by later steps, and
\* input_mapping does not supply it from an earlier one.
OnlyLater(i, task, R) ==
    /\ R \notin producedBefore(i)
    /\ ~(R \in DOMAIN task.InputMapping /\ task.InputMapping[R] \in producedBefore(i))
    /\ R \in producedAfter(i)

\* C1: a task step, once resolved and past the param parity check, fails with
\* the missing-resources error naming R whenever its declared input R is
\* produced only by steps that come after it in its job: no such task passes,
\* and the error of one that fails names R.
C1_ForwardOnlyVisibility ==
    pc \in {"run", "done"} =>
        /\ \A i \in 1..(stepIdx - 1) :
               IsTask(flat[i]) =>
                   \A R \in inputNames(passedTask(i)) : ~OnlyLater(i, passedTask(i), R)
        /\ (Failed /\ Resolved /\ paramsMatch(resolvedTask)) =>
               \A R \in inputNames(resolvedTask) :
                   OnlyLater(stepIdx, resolvedTask, R) =>
                       /\ IsResourcesError(err)
                       /\ R \in Elems(Deref(err).data.Missing)

\* C2: the param parity check returns no error exactly when the invoked keys
\* are the declared keys; otherwise it returns the parity error carrying the
\* declared keys that are not invoked as missing and the invoked keys that are
\* not declared as extra, each once.
C2_ParityExact ==
    pc = "done" =>
        LET declared == DOMAIN definition(resolvedTask).Params
            invoked == DOMAIN resolvedTask.Params
        IN /\ IsNil(err) <=> declared = invoked
           /\ ~IsNil(err) =>
                  /\ IsParityError(err)
                  /\ Deref(err).data.Type = "params"
                  /\ Elems(Deref(err).data.Missing) = declared \ invoked
                  /\ Len(Deref(err).data.Missing) = Cardinality(declared \ invoked)
                  /\ Elems(Deref(err).data.Extras) = invoked \ declared
                  /\ Len(Deref(err).data.Extras) = Cardinality(invoked \ declared)

\* C2 witness: the check has reported a missing and an extra param at once.
C2_Witness ==
    /\ pc = "done"
    /\ IsParityError(err)
    /\ Deref(err).data.Missing # <<>>
    /\ Deref(err).data.Extras # <<>>

\* A declared input is satisfied by its own name or by the name that
\* input_mapping gives it.
satisfied(task, input) ==
    \/ input \in available
    \/ input \in DOMAIN task.InputMapping /\ task.InputMapping[input] \in available

\* C3: the availability check reports as missing exactly the declared inputs,
\* in declaration order, that are neither available themselves nor mapped by
\* input_mapping to an available name, and fails with the missing-resources
\* error exactly when there is one.
C3_PresenceExact ==
    pc = "done" =>
        LET inputs == definition(resolvedTask).Inputs
            unsatisfied(input) == ~satisfied(resolvedTask, input.Name)
            expected == SelectSeq(inputs, unsatisfied)
        IN /\ IsNil(err) <=> expected = <<>>
           /\ ~IsNil(err) =>
                  /\ IsResourcesError(err)
                  /\ Deref(err).data.Missing = [i \in 1..Len(expected) |-> expected[i].Name]
                  /\ Deref(err).data.Extras = <<>>

\* C3 witness: the check passed a task one of whose inputs is available only
\* under the name input_mapping gives it.
C3_Witness ==
    /\ pc = "done"
    /\ IsNil(err)
    /\ \E input \in inputNames(resolvedTask) :
           /\ input \notin available
           /\ input \in DOMAIN resolvedTask.InputMapping
           /\ resolvedTask.InputMapping[input] \in available

getNamesBefore(i) == { flat[k].Get : k \in { n \in 1..(i - 1) : IsGet(flat[n]) } }

putNamesBefore(i) == { flat[k].Put : k \in { n \in 1..(i - 1) : IsPut(flat[n]) } }

\* C4: the names of the get and put steps before a step are available to it,
\* and a resolved task with matching params whose declared inputs are all
\* such names does not fail.
C4_GetPutAvailable ==
    pc \in {"run", "done"} =>
        /\ getNamesBefore(stepIdx) \cup putNamesBefore(stepIdx) \subseteq available
        /\ (Failed /\ Resolved /\ paramsMatch(resolvedTask)) =>
               ~(inputNames(resolvedTask)
                    \subseteq getNamesBefore(stepIdx) \cup putNamesBefore(stepIdx))

\* C4 witness: a task whose input is the name of an earlier put has passed.
C4_Witness ==
    /\ pc = "run"
    /\ Resolved
    /\ inputNames(resolvedTask) # {}
    /\ inputNames(resolvedTask) \subseteq putNamesBefore(Processed)

\* C5: the declared outputs and the local names of the output_mapping of
\* every task of the job that passed its checks are available from then on.
C5_OutputsAvailable ==
    pc \in {"run", "done"} =>
        \A k \in 1..Len(tasks) :
            declaredOutputs(tasks[k]) \cup mappedOutputs(tasks[k]) \subseteq available

\* C5 witness: a task has passed thanks to the local name of the
\* output_mapping of an earlier task that also declares an output.
C5_Witness ==
    /\ pc = "run"
    /\ Len(tasks) = 2
    /\ declaredOutputs(tasks[1]) # {}
    /\ \E name \in mappedOutputs(tasks[1]) \cap inputNames(tasks[2]) :
           name \notin declaredOutputs(tasks[1])

\* The names the job's processed steps other than its k-th passed task have
\* made available, the resource of a renaming get included.
producedElsewhere(k) ==
    UNION { IF IsGet(flat[i]) THEN {flat[i].Get, flat[i].Resource}
            ELSE IF IsPut(flat[i]) THEN {flat[i].Put}
            ELSE IF taskNumber(i) = k THEN {}
            ELSE declaredOutputs(passedTask(i)) \cup mappedOutputs(passedTask(i)) :
            i \in 1..(stepIdx - 1) }

\* C6: when a task that passed declares the output O and its output_mapping
\* maps O to another name L, then L is available afterwards and O is not,
\* unless another step produced O.
C6_MappedOutputRenamed ==
    pc \in {"run", "done"} =>
        \A k \in 1..Len(tasks) :
            \A O \in declaredOutputs(tasks[k]) \cap DOMAIN tasks[k].OutputMapping :
                tasks[k].OutputMapping[O] # O =>
                    /\ tasks[k].OutputMapping[O] \in available
                    /\ O \in available => O \in producedElsewhere(k)

\* The first segment of a task file path, and what follows it.
root(path) == SplitFirst(path)

remainder(path) == SubSeq(path, Len(root(path)) + 1, Len(path))

callerMap == t.config.ResourceMap

\* Whether the caller's resource map gives the name a directory.
Mapped(name) == name \in DOMAIN callerMap /\ callerMap[name] # EmptyStr

\* The latest get step of the job before index i that is named name (0 when
\* there is none).
lastGet(i, name) ==
    LET gets == { k \in 1..(i - 1) : IsGet(flat[k]) /\ flat[k].Get = name }
    IN IF gets = {} THEN 0 ELSE CHOOSE k \in gets : \A n \in gets : n <= k

IsUnresolvedError(e, path) ==
    ~IsNil(e) /\ Deref(e) \in {ErrNoConfig(path), ErrFindPath(path)}

\* C7: when the get that names the first segment A of a task's file path is
\* `get A resource: S` and the caller's resource map gives S the directory D,
\* resolving the task does not fail with an unresolved-resource error and
\* reads the file D joined with the rest of the path.
C7_RenameResolves ==
    (AfterTask /\ lastStep.TaskConfigPath # EmptyStr) =>
        LET path == lastStep.TaskConfigPath
            get == lastGet(Processed, root(path))
        IN (get > 0 /\ Mapped(flat[get].Resource)) =>
               /\ ~IsUnresolvedError(err, path)
               /\ reads = <<Join(callerMap[flat[get].Resource], remainder(path))>>

\* The job's resource map does not resolve the name.
Unresolvable(name) ==
    \/ DOMAIN resourceMap = {}
    \/ name \notin DOMAIN resourceMap
    \/ resourceMap[name] = EmptyStr

LoadedFile == Len(reads) = 1 /\ reads[1] \in DOMAIN fs /\ fs[reads[1]].yaml

IsLoadError(e, step) ==
    ~IsNil(e) /\ (IsUnresolvedError(e, step.TaskConfigPath)
                  \/ Deref(e) = ErrYaml
                  \/ Deref(e).msg = "failed to open task at %s")

\* C10 as claimed: a task step with an inline definition resolves to that
\* definition without a file being read or the resource map deciding, a file
\* path or not.
C10_InlineReturned ==
    (AfterTask /\ ~IsNil(lastStep.TaskConfig)) =>
        /\ reads = <<>>
        /\ ~IsLoadError(err, lastStep)
        /\ Resolved => resolvedTask.TaskConfig = lastStep.TaskConfig

\* C10 amended: a task step with an inline definition and no file path
\* resolves to that definition without a file being read; when it has a file
\* path as well, the definition loaded from the file takes the inline one's
\* place, and it is the one the checkers see.
C10_InlineUnlessFile ==
    /\ (AfterTask /\ ~IsNil(lastStep.TaskConfig) /\ lastStep.TaskConfigPath = EmptyStr) =>
           /\ reads = <<>>
           /\ ~IsLoadError(err, lastStep)
           /\ Resolved => resolvedTask = lastStep
    /\ (Resolved /\ ~IsNil(lastStep.TaskConfig) /\ lastStep.TaskConfigPath # EmptyStr) =>
           /\ LoadedFile
           /\ resolvedTask.TaskConfig = Ptr(fs[reads[1]].config)
           /\ ~paramsMatch(resolvedTask) => IsParityError(err)

\* C10 witness: a task step with an inline definition and a file path has
\* resolved to the file's definition, which differs from the inline one.
C10_Witness ==
    /\ Resolved
    /\ ~IsNil(lastStep.TaskConfig)
    /\ lastStep.TaskConfigPath # EmptyStr
    /\ resolvedTask.TaskConfig # lastStep.TaskConfig
    /\ IsParityError(err)

\* C11: the availability check returns no error for a task that declares no
\* inputs, whatever is available and whatever its input_mapping.
C11_NoInputsNoError ==
    (pc = "done" /\ definition(resolvedTask).Inputs = <<>>) => IsNil(err)

\* C11 witness: the check passed a task with no inputs and an input_mapping
\* while nothing was available.
C11_Witness ==
    /\ pc = "done"
    /\ calls = <<"testPresenceOfRequiredResources">>
    /\ definition(resolvedTask).Inputs = <<>>
    /\ resolvedTask.InputMapping # EmptyMap
    /\ resources = <<>>
    /\ IsNil(err)

\* The task with other values for the same declared and invoked keys.
withValues(task, declared, invoked) ==
    [task EXCEPT !.Params = invoked,
                 !.TaskConfig = Ptr([definition(task) EXCEPT !.Params = declared])]

\* C12: what the param parity check returned for a task is what it can
\* return for every task with the same declared keys and the same invoked
\* keys, whatever the values, and no more than that.
C12_ValuesIgnored ==
    pc = "done" =>
        \A declared \in [DOMAIN definition(resolvedTask).Params -> ParamValues],
           invoked \in [DOMAIN resolvedTask.Params -> ParamValues] :
            /\ err \in testParityOfParams(withValues(resolvedTask, declared, invoked),
                                          job.Name, t.path)
            /\ IsNil(err) <=>
                   Nil \in testParityOfParams(withValues(resolvedTask, declared, invoked),
                                              job.Name, t.path)

\* C12 witness: the check passed a task that declares a param without a
\* value and is invoked with a value for it.
C12_Witness ==
    /\ pc = "done"
    /\ calls = <<"testParityOfParams">>
    /\ IsNil(err)
    /\ \E k \in DOMAIN resolvedTask.Params :
           /\ k \in DOMAIN definition(resolvedTask).Params
           /\ definition(resolvedTask).Params[k] = EmptyStr
           /\ resolvedTask.Params[k] # EmptyStr

\* The k-th pipeline file is there and parses.
loaded(k) == PathOf(k) \in DOMAIN pipelineFiles /\ pipelineFiles[PathOf(k)].yaml

\* The places <<job, step>> of the task steps in the flattened plans of jobs.
taskSteps(jobs) ==
    UNION { LET plan == flattenedPlan(jobs[j].Plan)
            IN { <<j, n>> : n \in { m \in 1..Len(plan) : IsTask(plan[m]) } } :
            j \in 1..Len(jobs) }

\* Every task of every job of the k-th pipeline resolved and passed both
\* checks.
passedAll(k) ==
    /\ loaded(k)
    /\ \A place \in taskSteps(pipelineFiles[PathOf(k)].config.Jobs) :
           \E e \in 1..Len(log) :
               log[e] = [pipeline |-> k, job |-> place[1], step |-> place[2],
                         passed |-> TRUE]

\* Run on the k-th pipeline has come to an error.
failedIn(k) ==
    /\ k >= 1
    /\ \/ ~loaded(k)
       \/ log # <<>> /\ log[Len(log)].pipeline = k /\ ~log[Len(log)].passed

\* C13: main runs the pipelines in the order of its arguments; it exits with
\* status 1, the error of Run on the error stream, at the first pipeline
\* whose Run returns an error and runs no later one; it exits with status 0
\* only when every task of every job of every pipeline resolved and passed
\* both checks.
C13_FirstFailureExits ==
    /\ \A e \in 1..Len(log) : log[e].pipeline <= argIdx
    /\ \A e \in 1..(Len(log) - 1) : log[e].pipeline <= log[e + 1].pipeline
    /\ \A k \in 1..(argIdx - 1) : passedAll(k)
    /\ (pc = "main" /\ argIdx >= 1) => passedAll(argIdx)
    /\ IsNil(exitCode) <=> pc # "exit"
    /\ IsNil(exitCode) => stderr = <<>>
    /\ ~IsNil(exitCode) =>
           IF failedIn(argIdx)
           THEN /\ exitCode = Ptr(1)
                /\ ~IsNil(err)
                /\ stderr = <<Deref(err)>>
           ELSE /\ exitCode = Ptr(0)
                /\ stderr = <<>>
                /\ argIdx = Len(o.PipelinePath)
                /\ \A k \in 1..Len(o.PipelinePath) : passedAll(k)

\* C13 witness: the command exited with status 1 at its second pipeline,
\* after the tasks of the first passed and with a third pipeline not run.
C13_Witness ==
    /\ exitCode = Ptr(1)
    /\ argIdx = 2
    /\ Len(o.PipelinePath) > 2
    /\ loaded(3)
    /\ \E e \in 1..Len(log) : log[e].pipeline = 1 /\ log[e].passed
    /\ ~log[Len(log)].passed

\* The places of the task steps Run is through with: those of the jobs
\* before the current one and those of the current job up to the step the
\* loop is at.
placesDone ==
    { place \in taskSteps(config.Jobs) :
        \/ place[1] < jobIdx
        \/ place[1] = jobIdx /\ place[2] <= Processed }

\* C14: Run returns at the first task step that fails: every task step
\* before it, in the order of the jobs and of their flattened plans, was
\* resolved and checked once and passed, the failing step is the last one
\* Run looked at, and no later step and no later job is looked at.
C14_FailFast ==
    pc \in {"run", "done"} =>
        /\ \A e \in 1..(Len(log) - 1) :
               /\ log[e].passed
               /\ \/ log[e].job < log[e + 1].job
                  \/ log[e].job = log[e + 1].job /\ log[e].step < log[e + 1].step
        /\ { <<log[e].job, log[e].step>> : e \in 1..Len(log) } = placesDone
        /\ Failed <=> (log # <<>> /\ ~log[Len(log)].passed)
        /\ Failed => /\ log[Len(log)].job = jobIdx
                     /\ log[Len(log)].step = stepIdx
        /\ (pc = "done" /\ ~Failed) =>
               /\ IsNil(err)
               /\ placesDone = taskSteps(config.Jobs)

\* C14 witness: Run returned the error of a task step of the first job after
\* an earlier task passed, with a task in the second job not looked at.
C14_Witness ==
    /\ Failed
    /\ jobIdx = 1
    /\ Len(log) = 2
    /\ \E place \in taskSteps(config.Jobs) : place[1] = 2

\* The names the steps of the current job before index n make available.
madeBefore(n) ==
    UNION { IF IsGet(flat[k]) THEN {flat[k].Get, flat[k].Resource} \ {EmptyStr}
            ELSE IF IsPut(flat[k]) THEN {flat[k].Put}
            ELSE declaredOutputs(passedTask(k)) \cup mappedOutputs(passedTask(k)) :
            k \in 1..(n - 1) }

\* The names the gets and puts of a plan make available.
fetched(plan) ==
    UNION { IF IsGet(flattenedPlan(plan)[k]) THEN {flattenedPlan(plan)[k].Get}
            ELSE IF IsPut(flattenedPlan(plan)[k]) THEN {flattenedPlan(plan)[k].Put}
            ELSE {} :
            k \in 1..Len(flattenedPlan(plan)) }

\* C15: a job starts with nothing available, what is available in it was made
\* available by its own steps, and so every input of a task that passed is
\* satisfied by an earlier step of the task's own job, never by a step of
\* another job.
C15_JobsShareNoResources ==
    pc \in {"run", "done"} =>
        /\ stepIdx = 1 => resources = <<>>
        /\ available \subseteq madeBefore(stepIdx)
        /\ \A n \in 1..(stepIdx - 1) :
               IsTask(flat[n]) =>
                   \A R \in inputNames(passedTask(n)) :
                       \/ R \in madeBefore(n)
                       \/ /\ R \in DOMAIN passedTask(n).InputMapping
                          /\ passedTask(n).InputMapping[R] \in madeBefore(n)

\* C15 witness: a task of the second job failed for want of a resource that
\* a get or a put of the first job had made available there.
C15_Witness ==
    /\ Failed
    /\ jobIdx = 2
    /\ IsResourcesError(err)
    /\ \E R \in Elems(Deref(err).data.Missing) : R \in fetched(config.Jobs[1].Plan)

\* The names the renaming gets of a plan make aliases.
aliases(plan) ==
    { flattenedPlan(plan)[k].Get :
        k \in { n \in 1..Len(flattenedPlan(plan)) :
                  /\ IsGet(flattenedPlan(plan)[n])
                  /\ flattenedPlan(plan)[n].Resource # EmptyStr } }

\* In every state a job starts from the caller's resource map, and without a
\* get of its own for the first segment of a task's file path the job
\* resolves the path by the caller's map alone.
startsFromCallerMap ==
    pc \in {"run", "done"} =>
        /\ (jobIdx >= 1 /\ stepIdx = 1) => resourceMap = callerMap
        /\ (AfterTask /\ lastStep.TaskConfigPath # EmptyStr
                      /\ lastGet(Processed, root(lastStep.TaskConfigPath)) = 0) =>
               IF Mapped(root(lastStep.TaskConfigPath))
               THEN reads = <<Join(callerMap[root(lastStep.TaskConfigPath)],
                                   remainder(lastStep.TaskConfigPath))>>
               ELSE /\ Failed
                    /\ IsUnresolvedError(err, lastStep.TaskConfigPath)
                    /\ reads = <<>>

\* C16: every job starts from the caller's resource map, so that an alias of
\* one job resolves no task file path of another, and no step of Run changes
\* the caller's resource map.
C16_CallerMapKept ==
    /\ []startsFromCallerMap
    /\ [][t'.config.ResourceMap = t.config.ResourceMap]_vars

\* C16 witness: a task file path of the second job did not resolve though
\* the first job had made its first segment an alias of a mapped resource.
C16_Witness ==
    /\ Failed
    /\ jobIdx = 2
    /\ AfterTask
    /\ lastStep.TaskConfigPath # EmptyStr
    /\ Deref(err) = ErrFindPath(lastStep.TaskConfigPath)
    /\ root(lastStep.TaskConfigPath) \in aliases(config.Jobs[1].Plan)
    /\ \E k \in 1..Len(config.Jobs[1].Plan) :
           /\ config.Jobs[1].Plan[k].Get = root(lastStep.TaskConfigPath)
           /\ Mapped(config.Jobs[1].Plan[k].Resource)

IsGroup(step) == ~IsNil(step.Aggregate) \/ ~IsNil(step.Do)

\* A node of none of the five shapes.
Shapeless(step) ==
    /\ ~IsGroup(step)
    /\ step.Get = EmptyStr
    /\ step.Put = EmptyStr
    /\ step.Task = EmptyStr

\* The steps of a group, in the place of the group; any other node as it is.
children(step) ==
    IF ~IsNil(step.Aggregate) THEN Deref(step.Aggregate)
    ELSE IF ~IsNil(step.Do) THEN Deref(step.Do)
    ELSE <<step>>

\* The plan with every group of its top level replaced by the group's steps.
RECURSIVE spliced(_)
spliced(seq) ==
    IF seq = <<>> THEN <<>> ELSE children(Head(seq)) \o spliced(Tail(seq))

\* The nodes of a plan whose groups are two deep at most.
nodes(plan) == Elems(plan) \cup Elems(spliced(plan)) \cup Elems(spliced(spliced(plan)))

\* C17: flattening a plan with a node of none of the five shapes is fatal to
\* the run: the process ends with an error and hands no flattened plan on.
C17_MalformedPlanFatal ==
    (pc = "done" /\ \E step \in nodes(job.Plan) : Shapeless(step)) =>
        ~IsNil(exitCode) \/ ~IsNil(err)

LeafOfPlan(step) == ~IsGroup(step) /\ ~Shapeless(step)

\* C18: of a plan in which every node has one shape flattenedPlan returns the
\* get, put and task leaves, each once, depth first and left to right, the
\* leaves of a group in the group's place, and no aggregate or do.
C18_FlattenInOrder ==
    (pc = "done" /\ \A step \in nodes(job.Plan) : ~Shapeless(step)) =>
        /\ flat = spliced(spliced(job.Plan))
        /\ \A n \in 1..Len(flat) : LeafOfPlan(flat[n])
        /\ Elems(flat) = { step \in nodes(job.Plan) : LeafOfPlan(step) }

\* C18 witness: a plan with a leaf before, inside and after a group within
\* a group was flattened to more than three leaves.
C18_Witness ==
    /\ pc = "done"
    /\ calls = <<"flattenedPlan">>
    /\ \A step \in nodes(job.Plan) : ~Shapeless(step)
    /\ Len(job.Plan) = 3
    /\ Len(spliced(job.Plan)) = 5
    /\ Len(flat) > 5
    /\ flat[1] # flat[2]

\* C19: a report is the same in every run on the same input: the error the
\* param parity check returned, with its extra and missing names in their
\* order, is the only one the check can return for the task.
C19_SameReportEveryRun ==
    (pc = "done" /\ calls = <<"testParityOfParams">>) =>
        \A other \in testParityOfParams(resolvedTask, job.Name, t.path) : other = err

\* What an error says of the place of the fault.
pipelinePathsIn(e) == IF "data" \in DOMAIN e THEN {e.data.PipelinePath} ELSE {}

jobNamesIn(e) ==
    IF "data" \in DOMAIN e THEN {e.data.JobName}
    ELSE IF "job" \in DOMAIN e THEN {e.job}
    ELSE {}

taskNamesIn(e) ==
    IF "data" \in DOMAIN e THEN {e.data.TaskName}
    ELSE IF "task" \in DOMAIN e THEN {e.task}
    ELSE {}

\* C20: the error Run returns for a failing task step names the pipeline
\* path, the job and the task of the step, whatever its kind.
C20_ErrorsLocateTheStep ==
    (Failed /\ AfterTask) =>
        /\ t.path \in pipelinePathsIn(Deref(err))
        /\ job.Name \in jobNamesIn(Deref(err))
        /\ lastStep.Task \in taskNamesIn(Deref(err))

\* What the task makes itself.
ownOutputs(task) == declaredOutputs(task) \cup mappedOutputs(task)

\* The input R of the task at step n is made by nothing the steps before n
\* added, and input_mapping does not supply it from there.
Unsupplied(n, task, R) ==
    /\ R \notin madeBefore(n)
    /\ ~(R \in DOMAIN task.InputMapping /\ task.InputMapping[R] \in madeBefore(n))

\* C21: what is available to a task step is what the steps strictly before
\* it added, so a task whose input only its own declared outputs or its own
\* output_mapping make fails the availability check on that input, and no
\* such task passes.
C21_OwnOutputsUnseen ==
    pc \in {"run", "done"} =>
        /\ \A n \in 1..(stepIdx - 1) :
               IsTask(flat[n]) =>
                   \A R \in inputNames(passedTask(n)) : ~Unsupplied(n, passedTask(n), R)
        /\ (Failed /\ Resolved /\ paramsMatch(resolvedTask)) =>
               /\ available = madeBefore(stepIdx)
               /\ \A R \in inputNames(resolvedTask) \cap ownOutputs(resolvedTask) :
                      Unsupplied(stepIdx, resolvedTask, R) =>
                          /\ IsResourcesError(err)
                          /\ R \in Elems(Deref(err).data.Missing)

\* C21 witness: a task failed for want of the name that its own
\* output_mapping gives to one of its outputs.
C21_Witness ==
    /\ Failed
    /\ Resolved
    /\ IsResourcesError(err)
    /\ \E R \in Elems(Deref(err).data.Missing) :
           /\ R \in mappedOutputs(resolvedTask)
           /\ R \notin declaredOutputs(resolvedTask)

\* The inner loop of Run takes the step it is at, to go on or to return.
TakesStep == pc = "run" /\ jobIdx' = jobIdx /\ stepIdx <= Len(flat) /\ vars' # vars

\* A get step changes what is available by its own name and no more.
getAddsOwnName ==
    (TakesStep /\ IsGet(planConfig)) =>
        Elems(resources') = Elems(resources) \cup {planConfig.Get}

\* C22: a get step adds its own name, the alias when it renames a resource,
\* to the available names and nothing else: `get A resource: S` does not make
\* S available.
C22_GetAddsOwnName == [][getAddsOwnName]_vars

\* What was available stays, in its place.
resourcesGrow ==
    (pc = "run" /\ jobIdx' = jobIdx) =>
        /\ Len(resources') >= Len(resources)
        /\ SubSeq(resources', 1, Len(resources)) = resources

\* C26: within a job the available names are only added to: every step
\* leaves what was available as it was and no step removes or replaces a
\* name.
C26_AppendOnly == [][resourcesGrow]_vars

\* C26 witness: a later step of the job added a name that was available
\* already, and the earlier one is still there.
C26_Witness ==
    /\ pc = "run"
    /\ stepIdx = 4
    /\ Len(resources) >= 3
    /\ \E m \in 2..Len(resources) : resources[m] = resources[1]
    /\ \E m \in 2..Len(resources) : resources[m] # resources[1]

\* The entries of the job's resource map after the step at hand.
resourceMapStep ==
    TakesStep =>
        IF IsGet(planConfig) /\ planConfig.Resource # EmptyStr
        THEN /\ DOMAIN resourceMap' = DOMAIN resourceMap \cup {planConfig.Get}
             /\ resourceMap'[planConfig.Get] =
                    (IF planConfig.Resource \in DOMAIN resourceMap
                     THEN resourceMap[planConfig.Resource]
                     ELSE EmptyStr)
             /\ \A k \in DOMAIN resourceMap \ {planConfig.Get} :
                    resourceMap'[k] = resourceMap[k]
        ELSE resourceMap' = resourceMap

\* C28: `get A resource: S` sets the entry of A in the job's resource map to
\* the entry S has then, the empty path when it has none, whatever A had
\* before, and leaves every other entry; a get without a resource, a put and
\* a task leave the map as it is.
C28_AliasEntry == [][resourceMapStep]_vars

\* C28 witness: a renaming get has replaced the directory the caller's map
\* gives its name by the empty path.
C28_Witness ==
    /\ pc = "run"
    /\ Processed >= 1
    /\ IsGet(lastStep)
    /\ lastStep.Resource # EmptyStr
    /\ Mapped(lastStep.Get)
    /\ resourceMap[lastStep.Get] = EmptyStr

\* C23: a task step is resolved, then its params are compared, then its
\* inputs are looked for, each only when the one before succeeded: a task
\* that fails resolution gets the resolution error and no check, a task with
\* params out of parity gets the parity error whether its inputs are
\* available or not, and only a task with params in parity has its inputs
\* looked for.
C23_ResolveThenParityThenPresence ==
    (pc \in {"run", "done"} /\ AfterTask) =>
        /\ ~Resolved =>
               /\ calls = <<"flattenTask">>
               /\ Failed
               /\ ~IsParityError(err)
               /\ ~IsResourcesError(err)
        /\ (Resolved /\ ~paramsMatch(resolvedTask)) =>
               /\ calls = <<"flattenTask", "testParityOfParams">>
               /\ IsParityError(err)
        /\ (Resolved /\ paramsMatch(resolvedTask)) =>
               /\ calls = <<"flattenTask", "testParityOfParams",
                            "testPresenceOfRequiredResources">>
               /\ Failed => IsResourcesError(err)
        /\ IsResourcesError(err) => Resolved /\ paramsMatch(resolvedTask)

\* C23 witness: a task whose params are out of parity and whose input is not
\* available got the parity error.
C23_Witness ==
    /\ Failed
    /\ Resolved
    /\ IsParityError(err)
    /\ \E R \in inputNames(resolvedTask) :
           /\ R \notin available
           /\ R \notin DOMAIN resolvedTask.InputMapping

\* The plan with a do for every aggregate, and with an aggregate for every
\* do.
RECURSIVE regrouped(_, _)
regrouped(seq, kind) ==
    IF seq = <<>> THEN <<>>
    ELSE LET step == Head(seq)
             node == IF ~IsGroup(step) THEN step
                     ELSE IF kind = "do"
                     THEN [step EXCEPT !.Aggregate = Nil,
                                       !.Do = Ptr(regrouped(children(step), kind))]
                     ELSE [step EXCEPT !.Do = Nil,
                                       !.Aggregate = Ptr(regrouped(children(step), kind))]
         IN <<node>> \o regrouped(Tail(seq), kind)

\* C24: the plan of a job flattens to the same steps with a do for every
\* aggregate and with an aggregate for every do, and Run, which goes by the
\* flattened steps alone, gives a task inside a group what the steps before
\* it in the document made, its earlier siblings among them, and nothing of
\* the later ones.
C24_AggregateAsDo ==
    (pc \in {"run", "done"} /\ jobIdx >= 1) =>
        /\ flat = flattenedPlan(regrouped(job.Plan, "do"))
        /\ flat = flattenedPlan(regrouped(job.Plan, "aggregate"))
        /\ flat = spliced(job.Plan)
        /\ (Resolved /\ paramsMatch(resolvedTask)) =>
               (Failed <=> \E R \in inputNames(resolvedTask) :
                               Unsupplied(Processed, resolvedTask, R))

\* C24 witness: a task inside an aggregate, after an earlier sibling, failed
\* for want of a resource that a later sibling gets or puts.
C24_Witness ==
    /\ Failed
    /\ IsResourcesError(err)
    /\ Len(job.Plan) = 1
    /\ ~IsNil(job.Plan[1].Aggregate)
    /\ stepIdx >= 2
    /\ \E k \in (stepIdx + 1)..Len(flat) :
           \/ IsGet(flat[k]) /\ flat[k].Get \in Elems(Deref(err).data.Missing)
           \/ IsPut(flat[k]) /\ flat[k].Put \in Elems(Deref(err).data.Missing)

\* C25: a task file path whose first segment the resource map gives a
\* non-empty directory is loaded from that directory joined with the rest of
\* the path after the first segment, the rest taken as it is, the name of
\* the first segment occurring in it again or not.
C25_RemainderUnchanged ==
    (pc = "done" /\ calls = <<"loadTask">>) =>
        LET path == flat[stepIdx].TaskConfigPath
        IN (~Unresolvable(root(path))) =>
               reads = <<Join(resourceMap[root(path)], remainder(path))>>

\* C27: when the caller's resource map is empty, resolving a task step that
\* has a file path fails with "failed to load <path>; no config provided",
\* whatever steps come before it in the job.
C27_NoConfigWhateverPrecedes ==
    (AfterTask /\ lastStep.TaskConfigPath # EmptyStr /\ DOMAIN callerMap = {}) =>
        /\ Failed
        /\ Deref(err) = ErrNoConfig(lastStep.TaskConfigPath)

====
